---- MODULE Spec2Model ----
(***************************************************************************)
(* Model of titanic.py: the ship-data functions (show_countries,           *)
(* count_country_ship, top_countries, count_ship_by_types, search_ship,    *)
(* create_speed_histogram, draw_ship_map), the dispatcher handlers and the *)
(* read-eval-print loop visualize_cli.                                     *)
(*                                                                         *)
(* A Python str is a TLA+ string; Chars gives its characters, and the      *)
(* str methods the program uses (lower, in, isdigit, sort's comparison)    *)
(* and the int()/float() conversions are computed on the characters.       *)
(* A dict is the sequence of its [key, val] items in insertion order.      *)
(* A ship is a function from its keys to its values: a key the ship does   *)
(* not have is outside its DOMAIN.                                         *)
(***************************************************************************)
EXTENDS Integers, Sequences, FiniteSets, TLC

VARIABLES
    all_data,   \* the dataset: all_data['data'], a sequence of ships
    pc,         \* where control is
    state,      \* "RUNNING" | "TERMINATED" (loop ended cleanly) | "CRASHED" (uncaught exception)
    exc,        \* the exception that ended the loop, "none" while it runs
    command,    \* parts[0] of the line being dispatched
    args,       \* parts[1:] of the line being dispatched
    out,        \* what the current handler or function call has printed
    written,    \* the files plt.savefig has written in the current call
    call,       \* the function called and its argument (direct calls)
    result      \* what the function returned, or the values it extracted

vars == <<all_data, pc, state, exc, command, args, out, written, call, result>>

----------------------------------------------------------------------------
(* Bounds *)

MaxShips == 3
MaxExportShips == 2
MaxCliShips == 2
MaxTop == 4
MaxQueryLen == 2
MaxArgs == 2

----------------------------------------------------------------------------
(* Python values *)

None == "<None>"
NoKey == "<no key>"

Range(s) == {s[i] : i \in 1..Len(s)}

Min(a, b) == IF a <= b THEN a ELSE b

Max(a, b) == IF a >= b THEN a ELSE b

\* The characters of the strings the model uses.
Chars(s) ==
    CASE s = "" -> <<>>
      [] s = "UK" -> <<"U", "K">>
      [] s = "USA" -> <<"U", "S", "A">>
      [] s = "uk" -> <<"u", "k">>
      [] s = "Ca" -> <<"C", "a">>
      [] s = "aC" -> <<"a", "C">>
      [] s = "cca" -> <<"c", "c", "a">>
      [] s = "13.5" -> <<"1", "3", ".", "5">>
      [] s = "1.5" -> <<"1", ".", "5">>
      [] s = "0" -> <<"0">>
      [] s = "2" -> <<"2">>
      [] s = "-2" -> <<"-", "2">>
      [] s = "abc" -> <<"a", "b", "c">>
      [] s = "sup2" -> <<"SUPERSCRIPT TWO">>
      [] s = "f.png" -> <<"f", ".", "p", "n", "g">>

\* ord(c) of the characters that are compared.
Ord(c) ==
    CASE c = "A" -> 65 [] c = "K" -> 75 [] c = "S" -> 83 [] c = "U" -> 85
      [] c = "a" -> 97 [] c = "k" -> 107 [] c = "s" -> 115 [] c = "u" -> 117

\* str.lower() of one character.
LowerChar(c) ==
    CASE c = "A" -> "a" [] c = "C" -> "c" [] c = "K" -> "k"
      [] c = "S" -> "s" [] c = "U" -> "u"
      [] OTHER -> c

\* str.lower()
lower(cs) == [i \in 1..Len(cs) |-> LowerChar(cs[i])]

\* `needle in hay` of two strings: a substring at some offset.
InStr(needle, hay) ==
    \E i \in 0..(Len(hay) - Len(needle)) :
        SubSeq(hay, i + 1, i + Len(needle)) = needle

\* a < b of two strings: by code point, a proper prefix first.
RECURSIVE CharsLess(_, _)
CharsLess(a, b) ==
    IF b = <<>> THEN FALSE
    ELSE IF a = <<>> THEN TRUE
    ELSE IF Ord(Head(a)) # Ord(Head(b)) THEN Ord(Head(a)) < Ord(Head(b))
    ELSE CharsLess(Tail(a), Tail(b))

StrLess(s, t) == CharsLess(Chars(s), Chars(t))

\* SortStrings with the order reversed.
RECURSIVE SortStringsReversed(_)
SortStringsReversed(S) ==
    IF S = {} THEN <<>>
    ELSE LET m == CHOOSE x \in S : \A y \in S \ {x} : StrLess(y, x)
         IN  <<m>> \o SortStringsReversed(S \ {m})

\* list.sort() of a list of distinct strings, given as their set.
RECURSIVE SortStrings(_)
SortStrings(S) ==
    IF S = {} THEN <<>>
    ELSE LET m == CHOOSE x \in S : \A y \in S \ {x} : StrLess(x, y)
         IN  <<m>> \o SortStrings(S \ {m})

\* ship.get(key, default)
Get(ship, key, default) == IF key \in DOMAIN ship THEN ship[key] ELSE default

\* lst[:n]: a negative n counts from the end.
SliceTo(lst, n) ==
    IF n >= 0 THEN SubSeq(lst, 1, Min(n, Len(lst)))
    ELSE SubSeq(lst, 1, Max(Len(lst) + n, 0))

DecimalDigits == {"0", "1", "2", "3", "5"}

DigitValue(c) ==
    CASE c = "0" -> 0 [] c = "1" -> 1 [] c = "2" -> 2 [] c = "3" -> 3 [] c = "5" -> 5

\* str.isdigit(): not empty and every character a digit; the superscript
\* digits count as digits.
isdigit(cs) == cs # <<>> /\ \A i \in 1..Len(cs) : cs[i] \in DecimalDigits \cup {"SUPERSCRIPT TWO"}

RECURSIVE DigitsValue(_)
DigitsValue(cs) ==
    IF cs = <<>> THEN 0 ELSE 10 * DigitsValue(SubSeq(cs, 1, Len(cs) - 1)) + DigitValue(cs[Len(cs)])

AllDecimal(cs) == \A i \in 1..Len(cs) : cs[i] \in DecimalDigits

\* int(s): an optional sign and decimal digits, ValueError otherwise.
IntOf(cs) ==
    LET signed == cs # <<>> /\ cs[1] \in {"-", "+"}
        body == IF signed THEN Tail(cs) ELSE cs
    IN  IF body # <<>> /\ AllDecimal(body)
        THEN [ok |-> TRUE, val |-> IF signed /\ cs[1] = "-" THEN 0 - DigitsValue(body) ELSE DigitsValue(body)]
        ELSE [ok |-> FALSE, val |-> 0]

\* float(s) of a decimal literal: an optional sign, digits, at most one point
\* and at least one digit; the value is m / 10^e. ValueError otherwise.
FloatOf(cs) ==
    LET signed == cs # <<>> /\ cs[1] \in {"-", "+"}
        body == IF signed THEN Tail(cs) ELSE cs
        points == {i \in 1..Len(body) : body[i] = "."}
        digits == SelectSeq(body, LAMBDA c : c # ".")
        e == IF points = {} THEN 0 ELSE Len(body) - (CHOOSE i \in points : TRUE)
    IN  IF Cardinality(points) <= 1 /\ digits # <<>> /\ AllDecimal(digits)
        THEN [ok |-> TRUE, m |-> IF signed /\ cs[1] = "-" THEN 0 - DigitsValue(digits) ELSE DigitsValue(digits), e |-> e]
        ELSE [ok |-> FALSE, m |-> 0, e |-> 0]

----------------------------------------------------------------------------
(* The working functions *)

\* (country_list, country_unique)
show_countries(data) ==
    LET country_list == [i \in 1..Len(data) |-> data[i]["COUNTRY"]]
    IN  <<country_list, SortStrings(Range(country_list))>>

\* CountKey with the increment lost: d[k] = 1 whether or not k is there.
CountKeyOverwrite(d, k) ==
    IF \E j \in 1..Len(d) : d[j].key = k
    THEN [j \in 1..Len(d) |-> IF d[j].key = k THEN [key |-> k, val |-> 1] ELSE d[j]]
    ELSE Append(d, [key |-> k, val |-> 1])

\* One pass of a counting loop: d[k] += 1, or d[k] = 1 for a new key, which
\* goes last.
CountKey(d, k) ==
    IF \E j \in 1..Len(d) : d[j].key = k
    THEN [j \in 1..Len(d) |-> IF d[j].key = k THEN [key |-> k, val |-> d[j].val + 1] ELSE d[j]]
    ELSE Append(d, [key |-> k, val |-> 1])

RECURSIVE CountAll(_)
CountAll(keys) ==
    IF keys = <<>> THEN <<>>
    ELSE CountKey(CountAll(SubSeq(keys, 1, Len(keys) - 1)), keys[Len(keys)])

count_country_ship(data) == CountAll(show_countries(data)[1])

\* InsertDesc for a sort that is not stable: an item goes before the items of
\* equal count.
InsertDescBeforeTies(sorted, x) ==
    LET before == {j \in 1..Len(sorted) : sorted[j].val > x.val}
        k == IF before = {} THEN 0 ELSE CHOOSE j \in before : \A i \in before : i <= j
    IN  SubSeq(sorted, 1, k) \o <<x>> \o SubSeq(sorted, k + 1, Len(sorted))

\* sorted(items, key=count, reverse=True): stable, so an item goes behind
\* every item whose count is not smaller.
InsertDesc(sorted, x) ==
    LET before == {j \in 1..Len(sorted) : sorted[j].val >= x.val}
        k == IF before = {} THEN 0 ELSE CHOOSE j \in before : \A i \in before : i <= j
    IN  SubSeq(sorted, 1, k) \o <<x>> \o SubSeq(sorted, k + 1, Len(sorted))

\* SortedDesc without reverse=True: ascending by count.
RECURSIVE SortedAsc(_)
SortedAsc(items) ==
    IF items = <<>> THEN <<>>
    ELSE LET rest == SortedAsc(SubSeq(items, 1, Len(items) - 1))
             x == items[Len(items)]
             k == Cardinality({j \in 1..Len(rest) : rest[j].val <= x.val})
         IN  SubSeq(rest, 1, k) \o <<x>> \o SubSeq(rest, k + 1, Len(rest))

RECURSIVE SortedDesc(_)
SortedDesc(items) ==
    IF items = <<>> THEN <<>>
    ELSE InsertDesc(SortedDesc(SubSeq(items, 1, Len(items) - 1)), items[Len(items)])

top_countries(data, top) == SliceTo(SortedDesc(count_country_ship(data)), top)

count_ship_by_types(data) ==
    CountAll([i \in 1..Len(data) |-> Get(data[i], "TYPE_SUMMARY", "Unknown")])

\* search_ship without .lower() on the ship's name.
search_ship_case_sensitive(data, typed) ==
    LET user_input == lower(typed)
        hit(i) == InStr(user_input, Chars(Get(data[i], "SHIPNAME", "")))
        found == SelectSeq([i \in 1..Len(data) |-> i], hit)
        line(i) == [kind |-> "Found", idx |-> i,
                    val |-> <<Get(data[i], "SHIPNAME", None), Get(data[i], "COUNTRY", None),
                              Get(data[i], "TYPE_SUMMARY", None)>>]
    IN  [j \in 1..Len(found) |-> line(found[j])]
        \o (IF found = <<>> THEN <<[kind |-> "No ship found with that name.", idx |-> 0, val |-> <<>>]>>
            ELSE <<>>)

\* The ships whose name contains what the user typed, both lower-cased: their
\* positions in the loop's order, and what is printed for them.
search_ship(data, typed) ==
    LET user_input == lower(typed)
        hit(i) == InStr(user_input, lower(Chars(Get(data[i], "SHIPNAME", ""))))
        found == SelectSeq([i \in 1..Len(data) |-> i], hit)
        line(i) == [kind |-> "Found", idx |-> i,
                    val |-> <<Get(data[i], "SHIPNAME", None), Get(data[i], "COUNTRY", None),
                              Get(data[i], "TYPE_SUMMARY", None)>>]
    IN  [j \in 1..Len(found) |-> line(found[j])]
        \o (IF found = <<>> THEN <<[kind |-> "No ship found with that name.", idx |-> 0, val |-> <<>>]>>
            ELSE <<>>)

Msg(kind, val) == [kind |-> kind, val |-> val]

\* One iteration of the loop of create_speed_histogram.
SpeedStep(acc, ship) ==
    LET speed == Get(ship, "SPEED", None)
        f == FloatOf(Chars(speed))
        counted == [acc EXCEPT !.total = @ + 1]
    IN  IF speed # None
        THEN IF f.ok
             THEN IF f.m >= 0
                  THEN [counted EXCEPT !.speeds = Append(@, [m |-> f.m, e |-> f.e])]
                  ELSE [counted EXCEPT !.skipped = @ + 1]
             ELSE [counted EXCEPT !.skipped = @ + 1]
        ELSE [counted EXCEPT !.skipped = @ + 1]

RECURSIVE SpeedLoop(_)
SpeedLoop(data) ==
    IF data = <<>> THEN [speeds |-> <<>>, skipped |-> 0, total |-> 0]
    ELSE SpeedStep(SpeedLoop(SubSeq(data, 1, Len(data) - 1)), data[Len(data)])

\* create_speed_histogram without the early return on no speeds.
create_speed_histogram_always_saves(data, filename) ==
    LET r == SpeedLoop(data)
    IN  [scan |-> r,
         out |-> <<[kind |-> "Processed", val |-> r.total], [kind |-> "Valid", val |-> Len(r.speeds)],
                   [kind |-> "Skipped", val |-> r.skipped], [kind |-> "Histogram saved to", val |-> filename]>>,
         written |-> <<[file |-> filename, plot |-> "hist"]>>]

\* What create_speed_histogram extracts, prints and saves.
create_speed_histogram(data, filename) ==
    LET r == SpeedLoop(data)
    IN  IF r.speeds = <<>>
        THEN [scan |-> r, out |-> <<Msg("No valid speed data found.", 0)>>, written |-> <<>>]
        ELSE [scan |-> r,
              out |-> <<Msg("Processed", r.total), Msg("Valid", Len(r.speeds)),
                        Msg("Skipped", r.skipped), Msg("Histogram saved to", filename)>>,
              written |-> <<[file |-> filename, plot |-> "hist"]>>]

\* PositionStep with the latitude appended as soon as it is a number, before
\* the longitude is converted.
PositionStepLatFirst(acc, ship) ==
    LET lat == Get(ship, "LAT", None)
        lon == Get(ship, "LON", None)
        flat == FloatOf(Chars(lat))
        flon == FloatOf(Chars(lon))
        counted == [acc EXCEPT !.total = @ + 1]
    IN  IF lat # None /\ lon # None
        THEN IF flat.ok /\ flon.ok
             THEN [counted EXCEPT !.lats = Append(@, [m |-> flat.m, e |-> flat.e]),
                                  !.lons = Append(@, [m |-> flon.m, e |-> flon.e])]
             ELSE IF flat.ok
             THEN [counted EXCEPT !.lats = Append(@, [m |-> flat.m, e |-> flat.e]), !.skipped = @ + 1]
             ELSE [counted EXCEPT !.skipped = @ + 1]
        ELSE [counted EXCEPT !.skipped = @ + 1]

\* One iteration of the loop of draw_ship_map.
PositionStep(acc, ship) ==
    LET lat == Get(ship, "LAT", None)
        lon == Get(ship, "LON", None)
        flat == FloatOf(Chars(lat))
        flon == FloatOf(Chars(lon))
        counted == [acc EXCEPT !.total = @ + 1]
    IN  IF lat # None /\ lon # None
        THEN IF flat.ok /\ flon.ok
             THEN [counted EXCEPT !.lats = Append(@, [m |-> flat.m, e |-> flat.e]),
                                  !.lons = Append(@, [m |-> flon.m, e |-> flon.e])]
             ELSE [counted EXCEPT !.skipped = @ + 1]
        ELSE [counted EXCEPT !.skipped = @ + 1]

RECURSIVE PositionLoop(_)
PositionLoop(data) ==
    IF data = <<>> THEN [lats |-> <<>>, lons |-> <<>>, skipped |-> 0, total |-> 0]
    ELSE PositionStep(PositionLoop(SubSeq(data, 1, Len(data) - 1)), data[Len(data)])

\* What draw_ship_map extracts, prints and saves.
draw_ship_map(data, filename) ==
    LET r == PositionLoop(data)
    IN  IF r.lats = <<>> \/ r.lons = <<>>
        THEN [scan |-> r, out |-> <<Msg("No valid ship position data available.", 0)>>, written |-> <<>>]
        ELSE [scan |-> r,
              out |-> <<Msg("Processed", r.total), Msg("Valid", Len(r.lats)),
                        Msg("Skipped", r.skipped), Msg("Ship map saved as", filename)>>,
              written |-> <<[file |-> filename, plot |-> "scatter"]>>]

----------------------------------------------------------------------------
(* Datasets *)

SeqsUpTo(S, n) == UNION {[1..k -> S] : k \in 0..n}

\* The ship with the fields of f, without the keys f marks NoKey.
Ship(f) == [k \in {x \in DOMAIN f : f[x] # NoKey} |-> f[k]]

Countries == {"UK", "USA", "uk"}

\* Ships for the counting functions: every country, with and without a type,
\* with a speed that is valid or is not.
AggShips ==
    {Ship([SHIPNAME |-> "Ca", COUNTRY |-> c, TYPE_SUMMARY |-> t, SPEED |-> s, LAT |-> NoKey, LON |-> NoKey]) :
        c \in Countries, t \in {"Cargo", NoKey}, s \in {"0", "abc"}}

\* Ships for the search: names of either case, an empty name, no name.
SearchShips ==
    {Ship([SHIPNAME |-> n, COUNTRY |-> "UK", TYPE_SUMMARY |-> "Cargo", SPEED |-> NoKey, LAT |-> NoKey, LON |-> NoKey]) :
        n \in {"Ca", "aC", "cca", "", NoKey}}

\* Ships for the exporters: a speed and a position that are valid, not a
\* number, negative or missing.
ExportShips ==
    {Ship([SHIPNAME |-> NoKey, COUNTRY |-> "UK", TYPE_SUMMARY |-> NoKey, SPEED |-> s, LAT |-> la, LON |-> lo]) :
        s \in {"0", "-2", "abc", NoKey}, la \in {"1.5", "abc", NoKey}, lo \in {"-2", "abc", NoKey}}

\* What the user may type as a ship name.
Queries == SeqsUpTo({"C", "c", "a"}, MaxQueryLen)

Filenames == {"ship_speed_histogram.png", "ship_map.png", "f.png"}

----------------------------------------------------------------------------
(* Direct calls of the working functions *)

NoCall == [fn |-> "none", arg |-> None]

InitFn(Ships, n) ==
    /\ all_data \in SeqsUpTo(Ships, n)
    /\ pc = "idle"
    /\ state = "RUNNING"
    /\ exc = "none"
    /\ command = None
    /\ args = <<>>
    /\ out = <<>>
    /\ written = <<>>
    /\ call = NoCall
    /\ result = None

\* A call of a function that returns a value and prints nothing.
Returns(fn, arg, value) ==
    /\ pc = "idle"
    /\ pc' = "returned"
    /\ call' = [fn |-> fn, arg |-> arg]
    /\ result' = value
    /\ UNCHANGED <<all_data, state, exc, command, args, out, written>>

\* A call of a function that prints and saves.
Prints(fn, arg, r) ==
    /\ pc = "idle"
    /\ pc' = "returned"
    /\ call' = [fn |-> fn, arg |-> arg]
    /\ result' = r.scan
    /\ out' = r.out
    /\ written' = r.written
    /\ UNCHANGED <<all_data, state, exc, command, args>>

Apply_show_countries == Returns("show_countries", None, show_countries(all_data))

Apply_count_country_ship == Returns("count_country_ship", None, count_country_ship(all_data))

Apply_top_countries == \E top \in (0 - MaxTop)..MaxTop : Returns("top_countries", top, top_countries(all_data, top))

Apply_count_ship_by_types == Returns("count_ship_by_types", None, count_ship_by_types(all_data))

Apply_search_ship ==
    \E typed \in Queries :
        Prints("search_ship", typed, [scan |-> None, out |-> search_ship(all_data, typed), written |-> <<>>])

Apply_create_speed_histogram ==
    \E f \in Filenames : Prints("create_speed_histogram", f, create_speed_histogram(all_data, f))

Apply_draw_ship_map ==
    \E f \in Filenames : Prints("draw_ship_map", f, draw_ship_map(all_data, f))

InitAgg == InitFn(AggShips, MaxShips)

NextAgg == Apply_show_countries \/ Apply_count_country_ship \/ Apply_top_countries \/ Apply_count_ship_by_types

SpecAgg == InitAgg /\ [][NextAgg]_vars

InitSearch == InitFn(SearchShips, MaxShips)

NextSearch == Apply_search_ship

SpecSearch == InitSearch /\ [][NextSearch]_vars

InitExport == InitFn(ExportShips, MaxExportShips)

NextExport == Apply_create_speed_histogram \/ Apply_draw_ship_map

SpecExport == InitExport /\ [][NextExport]_vars

----------------------------------------------------------------------------
(* The dispatcher handlers and the loop of visualize_cli *)

\* The registry: command name -> handler.
dispatcher ==
    [help |-> "call_help", show_countries |-> "call_show_countries",
     top_countries |-> "call_top_countries", ships_by_types |-> "call_show_ship_types",
     search_ship |-> "call_search_ship", speed_histogram |-> "call_speed_histogram",
     draw_map |-> "call_draw_map", exit |-> "exit_cli"]

\* A line is the sequence of its words and of the blanks between them.
\* str.strip(): without the blanks at either end.
RECURSIVE strip(_)
strip(line) ==
    IF line = <<>> THEN <<>>
    ELSE IF Head(line) = " " THEN strip(Tail(line))
    ELSE IF line[Len(line)] = " " THEN strip(SubSeq(line, 1, Len(line) - 1))
    ELSE line

\* str.split(): the words.
split(line) == SelectSeq(line, LAMBDA w : w # " ")

\* The words with one blank between them.
RECURSIVE Join(_)
Join(words) ==
    IF Len(words) <= 1 THEN words
    ELSE <<Head(words), " ">> \o Join(Tail(words))

CommandWords == DOMAIN dispatcher \cup {"bogus"}

ArgTokens == {"2", "0", "-2", "sup2", "f.png"}

\* What the user may type at the prompt: nothing, blanks, a command word with
\* up to MaxArgs arguments, and the same with blanks around it.
Lines ==
    {<<>>, <<" ">>, <<" ", " ">>}
    \cup {Join(<<c>> \o a) : c \in CommandWords, a \in SeqsUpTo(ArgTokens, MaxArgs)}
    \cup {<<" ", c, " ">> : c \in CommandWords}

\* The three ships of the scenario: two of USA, one of them with a negative
\* speed, and one of UK with no name, no type and a speed that is no number.
CliShips ==
    {[SHIPNAME |-> "Ca", COUNTRY |-> "USA", TYPE_SUMMARY |-> "Cargo", SPEED |-> "13.5", LAT |-> "1.5", LON |-> "-2"],
     [SHIPNAME |-> "aC", COUNTRY |-> "USA", TYPE_SUMMARY |-> "Tanker", SPEED |-> "-2", LAT |-> "abc", LON |-> "0"],
     [COUNTRY |-> "UK", SPEED |-> "abc"]}

Init ==
    /\ all_data \in SeqsUpTo(CliShips, MaxCliShips)
    /\ pc = "input"
    /\ state = "RUNNING"
    /\ exc = "none"
    /\ command = None
    /\ args = <<>>
    /\ out = <<>>
    /\ written = <<>>
    /\ call = NoCall
    /\ result = None

Handler(c) == IF c \in DOMAIN dispatcher THEN dispatcher[c] ELSE None

\* The handler returns to the loop having printed `printed` and saved `saved`.
HandlerReturns(printed, saved) ==
    /\ out' = printed
    /\ written' = saved
    /\ pc' = "continue"
    /\ UNCHANGED <<all_data, state, exc, command, args, call, result>>

\* An exception leaves the handler: visualize_cli catches KeyboardInterrupt
\* and SystemExit and ends cleanly, anything else ends the program.
HandlerRaises(printed, e) ==
    /\ out' = printed
    /\ exc' = e
    /\ state' = (IF e \in {"KeyboardInterrupt", "SystemExit"} THEN "TERMINATED" ELSE "CRASHED")
    /\ pc' = "exited"
    /\ UNCHANGED <<all_data, command, args, written, call, result>>

\* user_input = input("> ").strip(); an empty line goes round the loop, any
\* other is split into the command and its arguments.
ReadLine ==
    /\ pc = "input"
    /\ \E line \in Lines :
        LET user_input == strip(line)
            parts == split(user_input)
        IN  IF user_input = <<>>
            THEN pc' = "continue" /\ UNCHANGED <<command, args>>
            ELSE pc' = "handler" /\ command' = parts[1] /\ args' = Tail(parts)
    /\ UNCHANGED <<all_data, state, exc, out, written, call, result>>

UnknownCommand ==
    /\ pc = "handler"
    /\ Handler(command) = None
    /\ HandlerReturns(<<Msg("Unknown command. Type 'help' to see available commands.", 0)>>, <<>>)

call_help ==
    /\ pc = "handler"
    /\ Handler(command) = "call_help"
    /\ HandlerReturns(<<Msg("Available commands:", 0)>>, <<>>)

call_show_countries ==
    /\ pc = "handler"
    /\ Handler(command) = "call_show_countries"
    /\ LET country_unique == show_countries(all_data)[2]
       IN  HandlerReturns([i \in 1..Len(country_unique) |-> Msg("country", country_unique[i])], <<>>)

call_top_countries ==
    /\ pc = "handler"
    /\ Handler(command) = "call_top_countries"
    /\ IF Len(args) # 1
       THEN HandlerReturns(<<Msg("Usage: top_countries <num_countries>", 0)>>, <<>>)
       ELSE IF ~isdigit(Chars(args[1]))
       THEN HandlerReturns(<<Msg("Error: The argument must be a positive integer.", 0)>>, <<>>)
       ELSE LET top_ranking == IntOf(Chars(args[1]))
                top_list == top_countries(all_data, top_ranking.val)
            IN  IF ~top_ranking.ok
                THEN HandlerRaises(<<>>, "ValueError")
                ELSE HandlerReturns(<<Msg("Top Countries by Ship Count:", top_ranking.val)>>
                                    \o [i \in 1..Len(top_list) |-> Msg("count", top_list[i])], <<>>)

call_show_ship_types ==
    /\ pc = "handler"
    /\ Handler(command) = "call_show_ship_types"
    /\ IF args # <<>>
       THEN HandlerReturns(<<Msg("Usage: ships_by_types (no arguments)", 0)>>, <<>>)
       ELSE LET ranked == SortedDesc(count_ship_by_types(all_data))
            IN  HandlerReturns([i \in 1..Len(ranked) |-> Msg("count", ranked[i])], <<>>)

\* With no arguments the handler calls search_ship, which blocks on its own
\* input().
call_search_ship ==
    /\ pc = "handler"
    /\ Handler(command) = "call_search_ship"
    /\ IF args # <<>>
       THEN HandlerReturns(<<Msg("Usage: search_ship (no arguments)", 0)>>, <<>>)
       ELSE pc' = "query" /\ UNCHANGED <<all_data, state, exc, command, args, out, written, call, result>>

\* search_ship once the user has typed the name.
ReadQuery ==
    /\ pc = "query"
    /\ \E typed \in Queries : HandlerReturns(search_ship(all_data, typed), <<>>)

call_speed_histogram ==
    /\ pc = "handler"
    /\ Handler(command) = "call_speed_histogram"
    /\ LET filename == IF Len(args) = 1 THEN args[1] ELSE "ship_speed_histogram.png"
           r == create_speed_histogram(all_data, filename)
       IN  HandlerReturns(r.out, r.written)

call_draw_map ==
    /\ pc = "handler"
    /\ Handler(command) = "call_draw_map"
    /\ LET filename == IF Len(args) = 1 THEN args[1] ELSE "ship_map.png"
           r == draw_ship_map(all_data, filename)
       IN  HandlerReturns(r.out, r.written)

exit_cli ==
    /\ pc = "handler"
    /\ Handler(command) = "exit_cli"
    /\ HandlerRaises(<<Msg("Exiting CLI.", 0)>>, "SystemExit")

\* Ctrl-C while input() blocks, at the prompt or in search_ship.
Interrupt ==
    /\ pc \in {"input", "query"}
    /\ HandlerRaises(<<Msg("CLI interrupted. Exiting.", 0)>>, "KeyboardInterrupt")

\* End of input while input() blocks: EOFError, which nothing catches.
EndOfInput ==
    /\ pc \in {"input", "query"}
    /\ HandlerRaises(<<>>, "EOFError")

\* The next round of `while True`.
Continue ==
    /\ pc = "continue"
    /\ pc' = "input"
    /\ command' = None
    /\ args' = <<>>
    /\ out' = <<>>
    /\ written' = <<>>
    /\ UNCHANGED <<all_data, state, exc, call, result>>

Next ==
    \/ ReadLine
    \/ UnknownCommand
    \/ call_help
    \/ call_show_countries
    \/ call_top_countries
    \/ call_show_ship_types
    \/ call_search_ship
    \/ ReadQuery
    \/ call_speed_histogram
    \/ call_draw_map
    \/ exit_cli
    \/ Interrupt
    \/ EndOfInput
    \/ Continue

Spec == Init /\ [][Next]_vars

----------------------------------------------------------------------------
(* What the claims speak of, stated on the dataset itself *)

Returned(fn) == pc = "returned" /\ call.fn = fn

CountryOf(i) == all_data[i]["COUNTRY"]

DistinctCountries == {CountryOf(i) : i \in 1..Len(all_data)}

ShipsOf(c) == Cardinality({i \in 1..Len(all_data) : CountryOf(i) = c})

FirstOccurrence(c) == CHOOSE i \in 1..Len(all_data) : CountryOf(i) = c /\ \A j \in 1..(i - 1) : CountryOf(j) # c

Keys(d) == {d[j].key : j \in 1..Len(d)}

RECURSIVE SumVals(_)
SumVals(d) == IF d = <<>> THEN 0 ELSE d[1].val + SumVals(Tail(d))

\* The speed texts of the datasets that are numbers, and those that are not negative.
NumberTexts == {"0", "2", "-2", "1.5", "13.5"}

NonNegativeTexts == {"0", "2", "1.5", "13.5"}

BadSpeed(i) == Get(all_data[i], "SPEED", None) \notin NonNegativeTexts

ValidSpeedShips == {i \in 1..Len(all_data) : Get(all_data[i], "SPEED", None) \in NonNegativeTexts}

ValidPositionShips ==
    {i \in 1..Len(all_data) : Get(all_data[i], "LAT", None) \in NumberTexts /\ Get(all_data[i], "LON", None) \in NumberTexts}

----------------------------------------------------------------------------
(* Claims on the counting functions, under SpecAgg *)

\* C3: for every dataset and every n <= 0, negative n included,
\* top_countries(D, n) is the empty sequence.
C3_NonPositiveTopIsEmpty ==
    (Returned("top_countries") /\ call.arg <= 0) => result = <<>>

\* C4: for n >= 0, top_countries(D, n) has length min(n, distinct countries),
\* its counts do not increase, every entry is an item of count_country_ship(D)
\* and carries the number of ships of its country, no country left out has more
\* ships than one included, and n at or above the number of distinct countries
\* yields every country.
C4_TopCountriesIsDescendingPrefix ==
    (Returned("top_countries") /\ call.arg >= 0) =>
        /\ Len(result) = Min(call.arg, Cardinality(DistinctCountries))
        /\ \A i \in 1..(Len(result) - 1) : result[i].val >= result[i + 1].val
        /\ \A i \in 1..Len(result) :
            /\ result[i] \in Range(count_country_ship(all_data))
            /\ result[i].key \in DistinctCountries
            /\ result[i].val = ShipsOf(result[i].key)
        /\ \A c \in DistinctCountries \ Keys(result) :
            \A i \in 1..Len(result) : ShipsOf(c) <= result[i].val
        /\ (call.arg >= Cardinality(DistinctCountries) => Keys(result) = DistinctCountries)

\* C4 witness: top_countries(D, 1) where USA has two ships and UK one is
\* [("USA", 2)], UK left out.
C4_Witness ==
    /\ Returned("top_countries")
    /\ call.arg = 1
    /\ Len(all_data) = 3
    /\ CountryOf(1) = "UK"
    /\ result = <<[key |-> "USA", val |-> 2]>>

\* C7: the values of count_country_ship(D) sum to the number of ships, and so
\* do those of count_ship_by_types(D), a ship without a type counted under
\* "Unknown"; a ship whose speed is missing, not a number or negative is
\* counted in both.
C7_CountsSumToShips ==
    /\ Returned("count_country_ship") =>
        /\ SumVals(result) = Len(all_data)
        /\ \A i \in 1..Len(all_data) :
            \E j \in 1..Len(result) : result[j].key = CountryOf(i) /\ result[j].val = ShipsOf(CountryOf(i))
    /\ Returned("count_ship_by_types") =>
        /\ SumVals(result) = Len(all_data)
        /\ \A i \in 1..Len(all_data) :
            \E j \in 1..Len(result) :
                /\ result[j].key = (IF "TYPE_SUMMARY" \in DOMAIN all_data[i] THEN all_data[i]["TYPE_SUMMARY"] ELSE "Unknown")
                /\ result[j].val >= 1

\* C7 witness: three ships, one of them with neither a type nor a valid speed,
\* counted by type with two of them under "Unknown".
C7_Witness ==
    /\ Returned("count_ship_by_types")
    /\ Len(all_data) = 3
    /\ \E i \in 1..3 : "TYPE_SUMMARY" \notin DOMAIN all_data[i] /\ BadSpeed(i)
    /\ \E j \in 1..Len(result) : result[j] = [key |-> "Unknown", val |-> 2]

\* C9: show_countries(D) returns the country of every ship in the dataset's
\* order, and the unique countries strictly ascending, each country that occurs
\* once and no other.
C9_ShowCountriesSortedUnique ==
    Returned("show_countries") =>
        /\ Len(result[1]) = Len(all_data)
        /\ \A i \in 1..Len(all_data) : result[1][i] = CountryOf(i)
        /\ \A i \in 1..(Len(result[2]) - 1) : StrLess(result[2][i], result[2][i + 1])
        /\ \A i, j \in 1..Len(result[2]) : i # j => result[2][i] # result[2][j]
        /\ Range(result[2]) = Range(result[1])

\* C9 witness: uk, UK, uk in that order gives the unique list UK, uk.
C9_Witness ==
    /\ Returned("show_countries")
    /\ result[1] = <<"uk", "UK", "uk">>
    /\ result[2] = <<"UK", "uk">>

\* C10: countries with equal counts are ranked in the order of their first
\* occurrence in the dataset: the frequency table lists the countries by first
\* occurrence and top_countries keeps that order among equal counts.
C10_TiesInFirstOccurrenceOrder ==
    /\ Returned("count_country_ship") =>
        \A i, j \in 1..Len(result) :
            i < j => FirstOccurrence(result[i].key) < FirstOccurrence(result[j].key)
    /\ Returned("top_countries") =>
        \A i, j \in 1..Len(result) :
            (i < j /\ result[i].val = result[j].val) =>
                FirstOccurrence(result[i].key) < FirstOccurrence(result[j].key)

\* C10 witness: uk, USA, UK once each are ranked uk, USA, UK, which is not
\* their alphabetical order.
C10_Witness ==
    /\ Returned("top_countries")
    /\ [i \in 1..Len(all_data) |-> CountryOf(i)] = <<"uk", "USA", "UK">>
    /\ result = <<[key |-> "uk", val |-> 1], [key |-> "USA", val |-> 1], [key |-> "UK", val |-> 1]>>

----------------------------------------------------------------------------
(* Claim on the search, under SpecSearch *)

\* The name of ship i, lower-cased, holds the query, lower-cased, at some offset.
NameHolds(i, q) ==
    LET name == Chars(IF "SHIPNAME" \in DOMAIN all_data[i] THEN all_data[i]["SHIPNAME"] ELSE "")
    IN  \E a \in 0..Len(name) :
            /\ a + Len(q) <= Len(name)
            /\ \A k \in 1..Len(q) : LowerChar(name[a + k]) = LowerChar(q[k])

\* C8: search_ship reports exactly the ships whose name (empty when absent)
\* contains the query, both lower-cased, in the dataset's order and each once;
\* "No ship found" is printed if and only if no ship matches.
C8_SearchReportsExactlyTheMatches ==
    Returned("search_ship") =>
        LET found == SelectSeq(out, LAMBDA l : l.kind = "Found")
            none == SelectSeq(out, LAMBDA l : l.kind = "No ship found with that name.")
            matches == {i \in 1..Len(all_data) : NameHolds(i, call.arg)}
        IN  /\ {found[j].idx : j \in 1..Len(found)} = matches
            /\ \A j \in 1..(Len(found) - 1) : found[j].idx < found[j + 1].idx
            /\ \A j \in 1..Len(found) :
                found[j].val[1] = Get(all_data[found[j].idx], "SHIPNAME", None)
            /\ Len(none) = (IF matches = {} THEN 1 ELSE 0)
            /\ Len(out) = Len(found) + Len(none)

\* C8 witness: the query "Ca" over the names aC, cca, Ca reports the second and
\* the third ship, the second by a match that differs in case.
C8_Witness ==
    /\ Returned("search_ship")
    /\ call.arg = <<"C", "a">>
    /\ Len(all_data) = 3
    /\ Get(all_data[1], "SHIPNAME", None) = "aC"
    /\ Get(all_data[2], "SHIPNAME", None) = "cca"
    /\ Len(out) = 2
    /\ out[1].idx = 2
    /\ out[2].idx = 3

----------------------------------------------------------------------------
(* Claims on the exporters, under SpecExport *)

\* C5: in both extractions every ship is processed and is counted once, as
\* valid or as skipped: processed = valid + skipped; a missing field, a text
\* that is not a number and a negative speed are skipped; a position is valid
\* only when both coordinates are numbers, so there are as many latitudes as
\* longitudes.
C5_ProcessedIsValidPlusSkipped ==
    /\ Returned("create_speed_histogram") =>
        /\ result.total = Len(all_data)
        /\ result.total = Len(result.speeds) + result.skipped
        /\ Len(result.speeds) = Cardinality(ValidSpeedShips)
    /\ Returned("draw_ship_map") =>
        /\ result.total = Len(all_data)
        /\ result.total = Len(result.lats) + result.skipped
        /\ Len(result.lats) = Len(result.lons)
        /\ Len(result.lats) = Cardinality(ValidPositionShips)

\* C5 witness: of two ships the first has a latitude that is a number and a
\* longitude that is not; it is skipped and the second is valid.
C5_Witness ==
    /\ Returned("draw_ship_map")
    /\ Len(all_data) = 2
    /\ Get(all_data[1], "LAT", None) = "1.5"
    /\ Get(all_data[1], "LON", None) = "abc"
    /\ result.skipped = 1
    /\ Len(result.lats) = 1

\* C6: an exporter has written its file when it returns if and only if the
\* dataset holds a valid value; with none it prints the no-data message alone,
\* no counts, and saves nothing; with one it prints the counts and the file is
\* the one it was given.
C6_FileWrittenIffValidData ==
    /\ Returned("create_speed_histogram") =>
        IF ValidSpeedShips = {}
        THEN written = <<>> /\ out = <<Msg("No valid speed data found.", 0)>>
        ELSE /\ written = <<[file |-> call.arg, plot |-> "hist"]>>
             /\ Len(out) = 4
             /\ out[1] = Msg("Processed", Len(all_data))
             /\ out[2] = Msg("Valid", Cardinality(ValidSpeedShips))
             /\ out[3] = Msg("Skipped", Len(all_data) - Cardinality(ValidSpeedShips))
    /\ Returned("draw_ship_map") =>
        IF ValidPositionShips = {}
        THEN written = <<>> /\ out = <<Msg("No valid ship position data available.", 0)>>
        ELSE /\ written = <<[file |-> call.arg, plot |-> "scatter"]>>
             /\ Len(out) = 4
             /\ out[1] = Msg("Processed", Len(all_data))
             /\ out[2] = Msg("Valid", Cardinality(ValidPositionShips))
             /\ out[3] = Msg("Skipped", Len(all_data) - Cardinality(ValidPositionShips))

\* C6 witness: the histogram of two ships, one with a negative speed, is saved
\* to the file named.
C6_Witness ==
    /\ Returned("create_speed_histogram")
    /\ call.arg = "f.png"
    /\ Len(all_data) = 2
    /\ Get(all_data[2], "SPEED", None) = "-2"
    /\ written = <<[file |-> "f.png", plot |-> "hist"]>>
    /\ result.skipped = 1

----------------------------------------------------------------------------
(* Claims on the loop and the handlers, under Spec *)

\* A line has been read and its handler has run (or is blocked in search_ship,
\* or has ended the loop).
Dispatched == pc \in {"continue", "query", "exited"} /\ command # None

\* C1: the loop ends, cleanly, on `exit` without arguments and on an interrupt
\* during a blocking read; no other line (a registered command other than exit
\* with any arguments included) ends it.
C1_LoopEndsOnlyOnExitOrInterrupt ==
    /\ (Dispatched /\ command = "exit" /\ args = <<>>) => (pc = "exited" /\ state = "TERMINATED")
    /\ exc = "KeyboardInterrupt" => (pc = "exited" /\ state = "TERMINATED")
    /\ (state # "RUNNING" /\ exc \notin {"KeyboardInterrupt", "EOFError"}) =>
            (command = "exit" /\ state = "TERMINATED")

\* The argument lists that break a command's contract.
BreaksContract(c, a) ==
    \/ c \in {"help", "show_countries", "ships_by_types", "search_ship", "exit"} /\ a # <<>>
    \/ c = "top_countries" /\ ~(Len(a) = 1 /\ IntOf(Chars(a[1])).ok /\ IntOf(Chars(a[1])).val >= 0)
    \/ c \in {"speed_histogram", "draw_map"} /\ Len(a) > 1

UsageMessages ==
    {"Usage: top_countries <num_countries>", "Error: The argument must be a positive integer.",
     "Usage: ships_by_types (no arguments)", "Usage: search_ship (no arguments)"}

\* C2: for every registered command and every argument list that breaks its
\* contract the handler prints a usage message and nothing else, does not do
\* what the command does, and does not raise.
C2_HandlersRejectBadArguments ==
    (Dispatched /\ command \in DOMAIN dispatcher /\ BreaksContract(command, args)) =>
        /\ pc = "continue"
        /\ state = "RUNNING"
        /\ Len(out) = 1
        /\ out[1].kind \in UsageMessages
        /\ written = <<>>

====
